---- MODULE Spec2Model ----
(***************************************************************************)
(* Model of CustomPMM (src/custom_pmm_no_config.py): the tick handler of a *)
(* market-making script, its volatility estimator, its proposal builder    *)
(* and its fill handler.                                                   *)
(*                                                                         *)
(* Number representation.  The script mixes float and Decimal; the model   *)
(* is fixed point over the integers:                                       *)
(*   prices (ref_price, mid_price)      whole quote units                  *)
(*   log-returns, volatility            units of 1e-5                      *)
(*   sigmoid, scale                     units of 1e-3                      *)
(*   bid_spread / ask_spread            units of 1e-5                      *)
(*   order amounts                      units of 1e-7 base units           *)
(* A float keeps a binary quantum and a Decimal result the digits of the   *)
(* context precision; both are scaled down (FloatQuantum, DecQuantum), so  *)
(* that Decimal(float) can carry digits a Decimal operation rounds away.   *)
(*   order prices (buy_price/sell_price) units of 1e-7 quote units, which  *)
(*                                      makes ref * (1 -/+ spread/100)     *)
(*                                      exact                              *)
(***************************************************************************)
EXTENDS Integers, Sequences, FiniteSets, TLC

VARIABLES
    ref_prices,         \* the class-level deque(maxlen=10), one object
    create_timestamp,   \* per controller instance: next time a refresh is allowed
    current_timestamp,  \* the framework clock read by the tick handler
    active_orders,      \* per instance: its resting orders (client order ids)
    fed,                \* every price get_price_by_type has returned, in order
    handler,            \* the callback that ran last
    status,             \* how it ended: "returned" or "raised"
    volatility,         \* calculate_volatility's result in the last full-window tick
    balances,           \* <<base, quote>> as last read by get_balance
    proposal,           \* create_proposal's result in the last tick, <<>> if none
    adjusted,           \* adjust_proposal_to_budget's result in the last tick
    calls,              \* the connector/framework calls the last callback issued
    caller,             \* the instance whose callback ran last, 0 before any
    last_cycle          \* per instance: <<time of its last cancel/replace cycle>>

vars == <<ref_prices, create_timestamp, current_timestamp, active_orders, fed,
          handler, status, volatility, balances, proposal, adjusted, calls,
          caller, last_cycle>>

(***************************************************************************)
(* Bounds of the model                                                     *)
(***************************************************************************)
MaxTicks == 13        \* ticks per behaviour
MaxChanges == 1       \* times the price feed moves away from its last value
TickSize == 10        \* clock units between two ticks

(***************************************************************************)
(* Class-level configuration                                               *)
(***************************************************************************)
bid_spread == 1000            \* 0.01 in units of 1e-5
ask_spread == 1000            \* 0.01 in units of 1e-5
order_refresh_time == 30
order_amount == 1000          \* 0.01 in units of 1e-5
maxlen == 10
target_vol == 500             \* 0.005 in units of 1e-5
sensitivity == 100
min_order == 1000             \* Decimal("0.0001") in units of 1e-7
epsilon == 10                 \* the 0.0001 calculate_volatility falls back to

\* controller objects of the process; the script is run as the single
\* instance of Solo
Instances == {1, 2}
Solo == {1}

\* Values the connector returns.
PriceLevels == {0, 100, 102}
BalanceLevels == {<<0, 0>>, <<1, -100>>, <<1, 100>>, <<7, -100>>}
Sides == {"BUY", "SELL"}

(***************************************************************************)
(* Arithmetic helpers                                                      *)
(***************************************************************************)
RECURSIVE SumSeq(_)
SumSeq(s) == IF s = <<>> THEN 0 ELSE Head(s) + SumSeq(Tail(s))

RECURSIVE Newton(_, _)
Newton(n, x) ==
    LET y == (x + n \div x) \div 2
    IN  IF y >= x THEN x ELSE Newton(n, y)

\* floor of the square root
ISqrt(n) == IF n = 0 THEN 0 ELSE Newton(n, n)

\* max() of two Decimals
DecMax(a, b) == IF a >= b THEN a ELSE b

\* a / b rounded to the nearest multiple of q, ties to even (b # 0, q > 0)
RoundHalfEven(a, b, q) ==
    LET n == IF b > 0 THEN a ELSE 0 - a
        d == (IF b > 0 THEN b ELSE 0 - b) * q
        f == n \div d
        r == n - f * d
    IN  IF 2 * r > d \/ (2 * r = d /\ f % 2 = 1) THEN q * (f + 1) ELSE q * f

\* the binary quantum of a float amount: 2^-3 * 1e-4, in units of 1e-7
FloatQuantum == 125

\* the last digit a Decimal operation keeps (context precision): 1e-5, in
\* units of 1e-7
DecQuantum == 100

(***************************************************************************)
(* numpy on the window (floats in units of 1e-5)                           *)
(***************************************************************************)
\* np.log of the positive prices the feed can return, in units of 1e-5
np_log(p) == CASE p = 100 -> 460517
               [] p = 102 -> 462497

\* np.diff(np.log(prices)): the len - 1 consecutive log-returns
np_diff_log(prices) ==
    [i \in 1..(Len(prices) - 1) |-> np_log(prices[i + 1]) - np_log(prices[i])]

\* np.std: population standard deviation, NaN for an empty array
np_std(returns) ==
    LET n  == Len(returns)
        s1 == SumSeq(returns)
        s2 == SumSeq([i \in 1..n |-> returns[i] * returns[i]])
    IN  IF n = 0
        THEN [isnan |-> TRUE, val |-> 0]
        ELSE [isnan |-> FALSE, val |-> ISqrt(n * s2 - s1 * s1) \div n]

\* 1 / (1 + np.exp(-x)) in units of 1e-3, x in units of 1e-3: the logistic
\* curve through its values at the knots, linear in between
SigmoidKnots ==
    << <<-8000, 0>>, <<-6000, 2>>, <<-4000, 18>>, <<-2000, 119>>, <<-1000, 269>>,
       <<-500, 378>>, <<0, 500>>, <<500, 622>>, <<1000, 731>>, <<2000, 881>>,
       <<4000, 982>>, <<6000, 998>>, <<8000, 1000>> >>

Sigmoid(x) ==
    LET K == SigmoidKnots
    IN  IF x <= K[1][1] THEN K[1][2]
        ELSE IF x >= K[Len(K)][1] THEN K[Len(K)][2]
        ELSE LET i == CHOOSE j \in 1..(Len(K) - 1) : K[j][1] <= x /\ x < K[j + 1][1]
             IN  K[i][2] + ((x - K[i][1]) * (K[i + 1][2] - K[i][2]))
                             \div (K[i + 1][1] - K[i][1])

(***************************************************************************)
(* CustomPMM.calculate_volatility                                          *)
(***************************************************************************)
AnyNonPositive(prices) == \E i \in 1..Len(prices) : prices[i] <= 0

\* faulty variant: the zero test of the guard is missing
DegenerateNanOnly(std) == std.isnan

\* the guard of line 85
Degenerate(std) == std.isnan \/ std.val = 0

calculate_volatility(prices) ==
    IF AnyNonPositive(prices)
    THEN epsilon
    ELSE LET std == np_std(np_diff_log(prices))
         IN  IF Degenerate(std) THEN epsilon ELSE std.val

(***************************************************************************)
(* CustomPMM.on_tick, volatility-based scaling (lines 35-43)               *)
(***************************************************************************)
\* scale = 1.5 - sigmoid, in units of 1e-3
Scale(vol) == 1500 - Sigmoid(((vol - target_vol) * sensitivity) \div 100)

\* Decimal(self.order_amount * scale): the float product, converted exactly
BaseAmount(scale) == RoundHalfEven(order_amount * scale, 10, FloatQuantum)

\* Decimal(self.bid_spread * (2 - scale)), Decimal(self.ask_spread * (2 - scale))
DynamicSpread(spread, scale) == (spread * (2000 - scale)) \div 1000

(***************************************************************************)
(* CustomPMM.on_tick, inventory skew (lines 52-69)                         *)
(***************************************************************************)
BtcValue(btc_balance, mid_price) == btc_balance * mid_price

TotalValue(btc_balance, usdt_balance, mid_price) ==
    BtcValue(btc_balance, mid_price) + usdt_balance

\* faulty variant: the zero-value test is missing
ZeroTotalMissing(total_value) == FALSE

\* the test of line 55
ZeroTotal(total_value) == total_value = 0

\* base_amount * (1.0 - skew_strength * inventory_skew) with
\* inventory_skew = btc_value / total_value - 0.5 and skew_strength = 1.5:
\* base_amount * (7 * total - 6 * btc_value) / (4 * total), a Decimal product
SkewBuy(base_amount, btc_value, total_value) ==
    RoundHalfEven(base_amount * (7 * total_value - 6 * btc_value), 4 * total_value,
                  DecQuantum)

\* base_amount * (1.0 + skew_strength * inventory_skew):
\* base_amount * (total + 6 * btc_value) / (4 * total), a Decimal product
SkewSell(base_amount, btc_value, total_value) ==
    RoundHalfEven(base_amount * (total_value + 6 * btc_value), 4 * total_value,
                  DecQuantum)

\* faulty variant: the amount is not floored
FloorMissing(amount) == amount

\* max(amount, min_order)
Floor(amount) == DecMax(amount, min_order)

(***************************************************************************)
(* CustomPMM.create_proposal                                               *)
(***************************************************************************)
\* ref_price * Decimal(1 - bid_spread / 100), in units of 1e-7
BuyPrice(ref_price, spread) == ref_price * (100 * 100000 - spread)

\* ref_price * Decimal(1 + ask_spread / 100), in units of 1e-7
SellPrice(ref_price, spread) == ref_price * (100 * 100000 + spread)

create_proposal(ref_price, bid, ask, buy_amount, sell_amount) ==
    << [order_side |-> "BUY", amount |-> buy_amount, price |-> BuyPrice(ref_price, bid)],
       [order_side |-> "SELL", amount |-> sell_amount, price |-> SellPrice(ref_price, ask)] >>

(***************************************************************************)
(* Order placement helpers                                                 *)
(***************************************************************************)
\* budget_checker.adjust_candidates is the connector's: it may keep or drop
\* either candidate; keep is the set of sides it keeps
adjust_proposal_to_budget(prop, keep) ==
    SelectSeq(prop, LAMBDA order : order.order_side \in keep)

\* faulty variant: the two branches submit on the wrong side
place_order_swapped(order) ==
    IF order.order_side = "SELL"
    THEN [op |-> "buy", amount |-> order.amount, price |-> order.price]
    ELSE [op |-> "sell", amount |-> order.amount, price |-> order.price]

place_order(order) ==
    IF order.order_side = "SELL"
    THEN [op |-> "sell", amount |-> order.amount, price |-> order.price]
    ELSE [op |-> "buy", amount |-> order.amount, price |-> order.price]

place_orders(prop) == [i \in 1..Len(prop) |-> place_order(prop[i])]

\* faulty variant: the cancel step is skipped
cancel_nothing(active) == <<>>

\* faulty variant: the loop stops after the first order
cancel_first_order(active) ==
    LET ids == SelectSeq(<<"BUY", "SELL">>, LAMBDA id : id \in active)
    IN  [i \in 1..(IF Len(ids) > 0 THEN 1 ELSE 0) |->
            [op |-> "cancel", client_order_id |-> ids[i]]]

\* one cancel per order get_active_orders returns
cancel_all_orders(active) ==
    LET ids == SelectSeq(<<"BUY", "SELL">>, LAMBDA id : id \in active)
    IN  [i \in 1..Len(ids) |-> [op |-> "cancel", client_order_id |-> ids[i]]]

(***************************************************************************)
(* CustomPMM.on_tick                                                       *)
(***************************************************************************)
\* faulty variant: a deque without maxlen
DequeAppendUnbounded(window, price) == Append(window, price)

\* deque.append on a deque(maxlen=10)
DequeAppend(window, price) ==
    IF Len(window) < maxlen
    THEN Append(window, price)
    ELSE Append(Tail(window), price)

\* faulty variant: the window test off by one
CollectingOffByOne(window) == Len(window) < maxlen - 1

\* the test of line 30
Collecting(window) == Len(window) < maxlen

\* faulty variant: the refresh fires one tick early
RefreshDueEarly(timestamp, now) == timestamp - TickSize <= now

\* the test of line 72
RefreshDue(timestamp, now) == timestamp <= now

\* faulty variant: the tick size is added instead of the refresh interval
NextCreateTimestampTick(now) == now + TickSize

\* faulty variant: the refresh interval is not added
NextCreateTimestampNow(now) == now

\* line 77
NextCreateTimestamp(now) == now + order_refresh_time

\* how often the feed's price differs from the price before it
Changes(prices) == Cardinality({i \in 1..(Len(prices) - 1) : prices[i] # prices[i + 1]})

\* the calls that reach the order book
OrderOps == {"cancel", "buy", "sell"}

NoOrderCalls(cs) == \A i \in 1..Len(cs) : cs[i].op \notin OrderOps

NoCancel(cs) == \A i \in 1..Len(cs) : cs[i].op # "cancel"

\* faulty variant: the timer starts ahead of the clock
InitLateTimer ==
    /\ ref_prices = <<>>
    /\ create_timestamp = [self \in Instances |-> order_refresh_time * maxlen]
    /\ current_timestamp = 0
    /\ active_orders = [self \in Instances |-> {}]
    /\ fed = <<>>
    /\ handler = "none"
    /\ status = "returned"
    /\ volatility = 0
    /\ balances = <<0, 0>>
    /\ proposal = <<>>
    /\ adjusted = <<>>
    /\ calls = <<>>
    /\ caller = 0
    /\ last_cycle = [self \in Instances |-> <<>>]

Init ==
    /\ ref_prices = <<>>
    /\ create_timestamp = [self \in Instances |-> 0]
    /\ current_timestamp = 0
    /\ active_orders = [self \in Instances |-> {}]
    /\ fed = <<>>
    /\ handler = "none"
    /\ status = "returned"
    /\ volatility = 0
    /\ balances = <<0, 0>>
    /\ proposal = <<>>
    /\ adjusted = <<>>
    /\ calls = <<>>
    /\ caller = 0
    /\ last_cycle = [self \in Instances |-> <<>>]

\* One tick of instance self: the clock has advanced by TickSize and the feed
\* returns ref_price; where the handler gets that far, get_balance returns bal
\* and the budget checker keeps the candidates whose side is in keep.
OnTick(self, ref_price) ==
    LET now    == current_timestamp + TickSize
        window == DequeAppend(ref_prices, ref_price)
    IN
    /\ Len(fed) < MaxTicks
    /\ Changes(Append(fed, ref_price)) <= MaxChanges
    /\ fed' = Append(fed, ref_price)
    /\ current_timestamp' = now
    /\ ref_prices' = window
    /\ handler' = "on_tick"
    /\ caller' = self
    /\ IF Collecting(window)
       THEN \* lines 30-32
            /\ calls' = <<[op |-> "log_info"]>>
            /\ status' = "returned"
            /\ proposal' = <<>>
            /\ adjusted' = <<>>
            /\ UNCHANGED <<create_timestamp, active_orders, volatility, balances>>
       ELSE \* lines 35-49
            \E vol \in {calculate_volatility(window)} :
            \E scale \in {Scale(vol)} :
            LET base_amount == BaseAmount(scale)
                bid         == DynamicSpread(bid_spread, scale)
                ask         == DynamicSpread(ask_spread, scale)
                mid_price   == ref_price
            IN
            /\ volatility' = vol
            /\ \E bal \in BalanceLevels :
                 LET btc_value   == BtcValue(bal[1], mid_price)
                     total_value == TotalValue(bal[1], bal[2], mid_price)
                 IN
                 /\ balances' = bal
                 /\ IF ZeroTotal(total_value)
                    THEN \* lines 55-57
                         /\ calls' = <<[op |-> "log_warning"]>>
                         /\ status' = "returned"
                         /\ proposal' = <<>>
                         /\ adjusted' = <<>>
                         /\ UNCHANGED <<create_timestamp, active_orders>>
                    ELSE IF total_value = 0
                    THEN \* line 60 divides by zero: the handler raises
                         /\ calls' = <<>>
                         /\ status' = "raised"
                         /\ proposal' = <<>>
                         /\ adjusted' = <<>>
                         /\ UNCHANGED <<create_timestamp, active_orders>>
                    ELSE \* lines 59-77
                         LET buy_amount  == Floor(SkewBuy(base_amount, btc_value, total_value))
                             sell_amount == Floor(SkewSell(base_amount, btc_value, total_value))
                         IN
                         /\ status' = "returned"
                         /\ IF RefreshDue(create_timestamp[self], now)
                            THEN \E keep \in SUBSET Sides :
                                   LET prop == create_proposal(mid_price, bid, ask,
                                                               buy_amount, sell_amount)
                                       adj  == adjust_proposal_to_budget(prop, keep)
                                   IN
                                   /\ proposal' = prop
                                   /\ adjusted' = adj
                                   /\ calls' = cancel_all_orders(active_orders[self])
                                                 \o place_orders(adj)
                                   /\ active_orders' =
                                          [active_orders EXCEPT ![self] =
                                              {adj[i].order_side : i \in 1..Len(adj)}]
                                   /\ create_timestamp' =
                                          [create_timestamp EXCEPT
                                              ![self] = NextCreateTimestamp(now)]
                            ELSE /\ calls' = <<>>
                                 /\ proposal' = <<>>
                                 /\ adjusted' = <<>>
                                 /\ UNCHANGED <<create_timestamp, active_orders>>
    \* bookkeeping: the time of the tick if it ran a cancel/replace cycle
    /\ last_cycle' = IF proposal' # <<>> \/ ~NoOrderCalls(calls')
                     THEN [last_cycle EXCEPT ![self] = <<now>>]
                     ELSE last_cycle

(***************************************************************************)
(* CustomPMM.did_fill_order                                                *)
(***************************************************************************)
\* faulty variant: the fill handler asks for an immediate refresh
DidFillOrderRefreshes(self, id) ==
    /\ id \in active_orders[self]
    /\ active_orders' = [active_orders EXCEPT ![self] = @ \ {id}]
    /\ handler' = "did_fill_order"
    /\ caller' = self
    /\ status' = "returned"
    /\ calls' = <<[op |-> "log_with_clock", msg |-> id],
                  [op |-> "notify_hb_app_with_timestamp", msg |-> id]>>
    /\ create_timestamp' = [create_timestamp EXCEPT ![self] = current_timestamp]
    /\ UNCHANGED <<ref_prices, current_timestamp, fed,
                   volatility, balances, proposal, adjusted, last_cycle>>

\* The connector fills the resting order id and raises the event.
DidFillOrder(self, id) ==
    /\ id \in active_orders[self]
    /\ active_orders' = [active_orders EXCEPT ![self] = @ \ {id}]
    /\ handler' = "did_fill_order"
    /\ caller' = self
    /\ status' = "returned"
    /\ calls' = <<[op |-> "log_with_clock", msg |-> id],
                  [op |-> "notify_hb_app_with_timestamp", msg |-> id]>>
    /\ UNCHANGED <<ref_prices, create_timestamp, current_timestamp, fed,
                   volatility, balances, proposal, adjusted, last_cycle>>

Tick ==
    \E self \in Solo, ref_price \in PriceLevels : OnTick(self, ref_price)

Fill == \E self \in Solo, id \in Sides : DidFillOrder(self, id)

Next == Tick \/ Fill

Spec == Init /\ [][Next]_vars

\* Two controller objects in one process, each ticked and notified in turn.
TickAny ==
    \E self \in Instances, ref_price \in PriceLevels : OnTick(self, ref_price)

FillAny == \E self \in Instances, id \in Sides : DidFillOrder(self, id)

NextTwo == TickAny \/ FillAny

SpecTwo == Init /\ [][NextTwo]_vars

\* self.ref_prices: no instance ever assigns the attribute, so the lookup
\* finds the deque of the class
Window(self) == ref_prices

(***************************************************************************)
(* Vocabulary of the properties                                            *)
(***************************************************************************)
\* the step is a run of on_tick
TickStep == fed' # fed

WindowFull == Len(ref_prices) = maxlen

\* the price the last tick read
LastPrice == fed[Len(fed)]

\* base_balance * mid_price + quote_balance of the last balances read
LastTotal == balances[1] * LastPrice + balances[2]

\* the step is a tick with a full window, non-zero value and the timer elapsed
RefreshStep ==
    /\ TickStep
    /\ WindowFull'
    /\ LastTotal' # 0
    /\ create_timestamp[1] <= current_timestamp'

\* cs is one cancel per order of active, then one submit per order of orders
CancelsThenSubmits(cs, active, orders) ==
    LET k == Cardinality(active)
    IN  /\ Len(cs) = k + Len(orders)
        /\ \A i \in 1..k : cs[i].op = "cancel"
        /\ {cs[i].client_order_id : i \in 1..k} = active
        /\ \A j \in 1..Len(orders) :
              cs[k + j] = [op     |-> IF orders[j].order_side = "BUY" THEN "buy" ELSE "sell",
                           amount |-> orders[j].amount,
                           price  |-> orders[j].price]

(***************************************************************************)
(* C1: a tick that leaves the window with fewer than N = 10 prices builds  *)
(* no proposal and issues no cancel, buy or sell call.                     *)
(***************************************************************************)
C1_WarmingPlacesNothing ==
    (handler = "on_tick" /\ Len(ref_prices) < maxlen)
        => (proposal = <<>> /\ adjusted = <<>> /\ NoOrderCalls(calls))

C1_Witness ==
    handler = "on_tick" /\ Len(ref_prices) = maxlen - 1 /\ status = "returned"

(***************************************************************************)
(* C2: with a full window, a tick whose time is strictly before            *)
(* create_timestamp issues no cancel and no submit call and leaves the     *)
(* resting orders and the timer alone, however many such ticks follow one  *)
(* another.                                                                *)
(***************************************************************************)
C2_IdleTouchesNoOrders ==
    [][(TickStep /\ WindowFull' /\ current_timestamp' < create_timestamp[1])
          => /\ NoOrderCalls(calls')
             /\ proposal' = <<>>
             /\ active_orders' = active_orders
             /\ create_timestamp' = create_timestamp]_vars

\* the second idle tick in a row, with orders resting
C2_Witness ==
    /\ handler = "on_tick"
    /\ WindowFull
    /\ current_timestamp < create_timestamp[1]
    /\ create_timestamp[1] - current_timestamp <= order_refresh_time - 2 * TickSize
    /\ active_orders[1] # {}
    /\ calls = <<>>

(***************************************************************************)
(* C3: on a tick with a full window, non-zero total value and              *)
(* now >= create_timestamp, the handler issues one cancel for every active *)
(* order, then submits exactly the orders the budget adjustment returned   *)
(* (BUY via buy, SELL via sell, each once), and sets                       *)
(* create_timestamp = now + order_refresh_time.                            *)
(***************************************************************************)
C3_RefreshCancelsThenSubmits ==
    [][RefreshStep
          => /\ CancelsThenSubmits(calls', active_orders[1], adjusted')
             /\ create_timestamp'[1] = current_timestamp' + order_refresh_time]_vars

\* a refresh that cancelled two resting orders and submitted two new ones
C3_Witness ==
    /\ handler = "on_tick"
    /\ Len(calls) = 4
    /\ calls[1].op = "cancel"
    /\ calls[2].op = "cancel"
    /\ calls[3].op = "buy"
    /\ calls[4].op = "sell"
    /\ create_timestamp[1] = current_timestamp + order_refresh_time

(***************************************************************************)
(* C4: a tick with a full window whose total value                         *)
(* base_balance * mid_price + quote_balance is 0 is skipped: no proposal,  *)
(* no cancel, no submit, the timer unchanged, and the handler returns      *)
(* normally, also when the timer has elapsed.                              *)
(***************************************************************************)
C4_ZeroTotalSkips ==
    [][(TickStep /\ WindowFull' /\ LastTotal' = 0)
          => /\ proposal' = <<>>
             /\ NoOrderCalls(calls')
             /\ create_timestamp' = create_timestamp
             /\ active_orders' = active_orders
             /\ status' = "returned"]_vars

\* skipped with non-zero balances, after an earlier cycle, the timer elapsed
C4_Witness ==
    /\ handler = "on_tick"
    /\ WindowFull
    /\ LastTotal = 0
    /\ balances # <<0, 0>>
    /\ create_timestamp[1] > 0
    /\ create_timestamp[1] <= current_timestamp
    /\ status = "returned"

(***************************************************************************)
(* C5: when the budget adjustment returns an empty proposal the tick       *)
(* submits no order, but the cancel step has already run: one cancel is    *)
(* issued for every order that was resting before the tick, and the timer  *)
(* is set to now + order_refresh_time.                                     *)
(***************************************************************************)
C5_EmptyAdjustmentStillCancels ==
    [][(RefreshStep /\ adjusted' = <<>>)
          => /\ CancelsThenSubmits(calls', active_orders[1], <<>>)
             /\ proposal' # <<>>
             /\ create_timestamp'[1] = current_timestamp' + order_refresh_time]_vars

\* both resting orders cancelled, nothing submitted
C5_Witness ==
    /\ handler = "on_tick"
    /\ proposal # <<>>
    /\ adjusted = <<>>
    /\ Len(calls) = 2
    /\ calls[1].op = "cancel"
    /\ calls[2].op = "cancel"

\* C5 as stated: a tick whose budget adjustment returns an empty proposal
\* issues no cancel and leaves the resting orders as they are.
C5_Original ==
    [][(RefreshStep /\ adjusted' = <<>>)
          => (NoCancel(calls') /\ active_orders' = active_orders)]_vars

(***************************************************************************)
(* C6: create_timestamp changes only in a tick that built a proposal,      *)
(* passed it through the budget adjustment and submitted the result, and   *)
(* is then now + order_refresh_time; warming ticks, zero-value ticks,      *)
(* ticks before the timer and fill events leave it unchanged.              *)
(***************************************************************************)
C6_TimerOnlyAfterCycle ==
    [][(create_timestamp' # create_timestamp)
          => /\ RefreshStep
             /\ handler' = "on_tick"
             /\ proposal' # <<>>
             /\ CancelsThenSubmits(calls', active_orders[1], adjusted')
             /\ create_timestamp'[1] = current_timestamp' + order_refresh_time]_vars

\* the timer set by a second cycle
C6_Witness ==
    /\ handler = "on_tick"
    /\ proposal # <<>>
    /\ create_timestamp[1] = current_timestamp + order_refresh_time
    /\ current_timestamp >= maxlen * TickSize + order_refresh_time

(***************************************************************************)
(* C7: every proposal the tick handler builds has                          *)
(* buy price < reference price < sell price.                               *)
(***************************************************************************)
C7_Original ==
    proposal # <<>>
        => /\ proposal[1].price < LastPrice * (100 * 100000)
           /\ LastPrice * (100 * 100000) < proposal[2].price

(***************************************************************************)
(* C8: the buy amount and the sell amount of every built proposal are at   *)
(* least min_order, also when base_amount * (1 -/+ 1.5 * inventory_skew)   *)
(* is zero or negative.                                                    *)
(***************************************************************************)
C8_AmountsAtLeastMinOrder ==
    proposal # <<>>
        => /\ proposal[1].order_side = "BUY"
           /\ proposal[1].amount >= min_order
           /\ proposal[2].order_side = "SELL"
           /\ proposal[2].amount >= min_order

\* a proposal built where 1 - 1.5 * inventory_skew is negative:
\* 7 * total - 6 * btc_value < 0 with total > 0
C8_Witness ==
    /\ proposal # <<>>
    /\ LastTotal > 0
    /\ 7 * LastTotal - 6 * (balances[1] * LastPrice) < 0
    /\ proposal[1].amount = min_order

(***************************************************************************)
(* C9: for a full window calculate_volatility returns a positive number:   *)
(* epsilon when a price is <= 0, epsilon when the standard deviation of    *)
(* the log-returns is NaN or 0 (so for N identical positive prices), and   *)
(* the standard deviation otherwise.                                       *)
(***************************************************************************)
AllIdentical(prices) == \A i \in 1..Len(prices) : prices[i] = prices[1]

C9_VolatilityPositive ==
    WindowFull
        => LET positive == \A i \in 1..Len(ref_prices) : ref_prices[i] > 0
               std      == np_std(np_diff_log(ref_prices))
           IN  /\ volatility > 0
               /\ ~positive => volatility = epsilon
               /\ (positive /\ AllIdentical(ref_prices)) => volatility = epsilon
               /\ (positive /\ (std.isnan \/ std.val = 0)) => volatility = epsilon
               /\ (positive /\ ~std.isnan /\ std.val # 0) => volatility = std.val

\* N identical positive prices
C9_Witness ==
    /\ WindowFull
    /\ ref_prices[1] > 0
    /\ AllIdentical(ref_prices)
    /\ volatility = epsilon

(***************************************************************************)
(* C10: after k ticks the window holds the last min(k, N) prices the feed  *)
(* returned, oldest first; a push onto a full window evicts the oldest     *)
(* price only.                                                             *)
(***************************************************************************)
C10_WindowIsLastPrices ==
    LET k == IF Len(fed) < maxlen THEN Len(fed) ELSE maxlen
    IN  /\ Len(ref_prices) = k
        /\ \A i \in 1..k : ref_prices[i] = fed[Len(fed) - k + i]

\* two prices evicted, the oldest of them different from what is kept
C10_Witness ==
    /\ Len(fed) = maxlen + 2
    /\ fed[1] # fed[3]
    /\ ref_prices[1] = fed[3]

(***************************************************************************)
(* C11: when base_balance * mid_price = quote_balance with non-zero total  *)
(* (current_ratio = target_ratio = 0.5), the amounts of the proposal are   *)
(* buy_amount = sell_amount = base_amount.                                 *)
(***************************************************************************)
Balanced == LastTotal # 0 /\ balances[1] * LastPrice = balances[2]

C11_Original ==
    (proposal # <<>> /\ Balanced)
        => /\ proposal[1].amount = BaseAmount(Scale(volatility))
           /\ proposal[2].amount = BaseAmount(Scale(volatility))

(***************************************************************************)
(* C12: with two controller instances in the process, a tick handled by    *)
(* one instance leaves the other instance's price window and refresh timer *)
(* unchanged.                                                              *)
(***************************************************************************)
C12_Original ==
    [][\A other \in Instances :
          (TickStep /\ caller' # other)
              => /\ Window(other)' = Window(other)
                 /\ create_timestamp'[other] = create_timestamp[other]]_vars

(***************************************************************************)
(* C13: a fill notification, whenever it arrives between ticks, changes    *)
(* neither the price window nor the refresh timer and issues no cancel or  *)
(* submit; did_fill_order's only effects are one log message and one       *)
(* notifier message with the same text.                                    *)
(***************************************************************************)
\* the step is a run of did_fill_order
FillStep == fed' = fed /\ vars' # vars

C13_FillChangesNoState ==
    [][FillStep
          => /\ handler' = "did_fill_order"
             /\ ref_prices' = ref_prices
             /\ create_timestamp' = create_timestamp
             /\ NoOrderCalls(calls')
             /\ Len(calls') = 2
             /\ calls'[1].op = "log_with_clock"
             /\ calls'[2].op = "notify_hb_app_with_timestamp"
             /\ calls'[1].msg = calls'[2].msg]_vars

\* a fill between a cycle and the next tick, the timer still running
C13_Witness ==
    /\ handler = "did_fill_order"
    /\ WindowFull
    /\ current_timestamp < create_timestamp[1]
    /\ Len(calls) = 2
    /\ active_orders[1] # {}

(***************************************************************************)
(* C14: under the increasing tick clock two cancel/replace cycles of one   *)
(* controller are at least order_refresh_time apart: after a cycle at time *)
(* t no tick at a time before t + 30 issues a cancel or a submit or builds *)
(* a proposal.                                                             *)
(***************************************************************************)
C14_CyclesRefreshTimeApart ==
    [][(TickStep /\ last_cycle[1] # <<>>
          /\ current_timestamp' < last_cycle[1][1] + order_refresh_time)
          => /\ NoOrderCalls(calls')
             /\ proposal' = <<>>
             /\ last_cycle' = last_cycle]_vars

\* a tick strictly inside (t, t + 30) with orders resting
C14_Witness ==
    /\ handler = "on_tick"
    /\ last_cycle[1] # <<>>
    /\ last_cycle[1][1] < current_timestamp
    /\ current_timestamp < last_cycle[1][1] + order_refresh_time
    /\ active_orders[1] = Sides

(***************************************************************************)
(* C15: from a fresh controller (empty window, create_timestamp = 0) no    *)
(* cycle runs before the N-th tick; if the portfolio value is non-zero on  *)
(* the N-th tick, the tick that fills the window, the first cycle runs on  *)
(* that very tick; from then on the window stays full.                     *)
(***************************************************************************)
C15_FirstCycleOnNthTick ==
    /\ Len(fed) < maxlen => (last_cycle[1] = <<>> /\ ~WindowFull)
    /\ (Len(fed) = maxlen /\ handler = "on_tick" /\ LastTotal # 0)
          => (proposal # <<>> /\ last_cycle[1] = <<current_timestamp>>)
    /\ Len(fed) >= maxlen => WindowFull

\* ticks after the N-th: the first cycle was on the N-th, the window is full
C15_Witness ==
    /\ Len(fed) > maxlen
    /\ WindowFull
    /\ last_cycle[1] = <<maxlen * TickSize>>

====
